---- MODULE Spec2Model ----
(***************************************************************************)
(* Continuous voice recognition of voice_input_assistant:                  *)
(* src/src/core/voice_recognizer.py, class ContinuousVoiceRecognizer.      *)
(*                                                                         *)
(* Threads of the program and how they appear here:                        *)
(*   - a caller thread per API call (start_continuous_recognition or       *)
(*     stop_recognition), as HotkeyManager._trigger_hotkey starts one      *)
(*     thread per hotkey press;                                            *)
(*   - a monitor thread per start (_continuous_monitor), which owns the    *)
(*     persistent input stream;                                            *)
(*   - the stream's frame callback (audio_callback), one atomic action per *)
(*     delivered frame;                                                    *)
(*   - a worker thread per accepted onset (_auto_record_and_recognize).    *)
(* Times are in milliseconds, energies in thousandths (0.020 is 20).       *)
(***************************************************************************)
EXTENDS Integers, FiniteSets, Sequences, TLC

\* ---------------------------------------------------------------- bounds
MaxWorkers == 2
MaxMonitors == 2
MaxCalls == 3
\* frames counted before the first voiced frame (Scenario B delivers 50)
MaxQuiet == 50
\* frames the device produces, at most, before a recorder's stream has opened
MaxOpenDelay == 12
\* frames that input overflows may discard during one recording
MaxLost == 2
\* times the hotkey goes down on the keyboard
MaxPresses == 3

\* ------------------------------------------------------ program constants
chunk_size == 1024
sample_rate == 16000
min_recording_duration == 500
silence_duration_to_stop == 800
MaxDurationCap == 10000

\* chunk_duration = chunk_size / self.sample_rate, in ms (64 exactly)
chunk_duration == (chunk_size * 1000) \div sample_rate

\* input sets
NoDevice == -1
DeviceIds == {NoDevice, 0}
VadThresholds == {20}
AutoDurations == {100}
Energies == {0, 6, 10, 20, 50}
\* input sets of the recorder's specification
RecDurations == {0, 300, 640, 1800, 2500}
RecThresholds == {20, 50}
RecEnergies == {0, 5, 6, 14, 15, 20, 50}
\* values a reload of the configuration brings in
ReloadDurations == {300, 2500}
ReloadThresholds == {20}
NoAudio == -1

Workers == 1..MaxWorkers
Monitors == 1..MaxMonitors
Calls == 1..MaxCalls

VARIABLES
    is_monitoring,            \* self.is_monitoring
    is_auto_recording,        \* self.is_auto_recording (the onset gate)
    is_recording,             \* self.is_recording (one-shot recording flag)
    recording_thread,         \* self.recording_thread: 0 is None, else a monitor
    input_device_id,          \* self.input_device_id
    callback,                 \* self.callback is set
    vad_threshold,            \* self.vad_threshold
    auto_recording_duration,  \* self.auto_recording_duration
    dynamic_recording,        \* self.dynamic_recording
    max_recording_duration,   \* self.max_recording_duration
    mon,                      \* monitor threads: position in _continuous_monitor
    mon_stream,               \* monitor threads: the persistent input stream is open
    wk,                       \* worker threads: position and locals
    nworkers,                 \* worker threads started so far
    call,                     \* caller threads: position in start/stop
    voiced_seen,              \* history: a frame with energy > vad_threshold was delivered
    quiet_frames,             \* history: frames delivered before the first such frame
    voiced_dropped,           \* history: a voiced frame was dropped by the gate
    stop_called,              \* history: stop_recognition has been called
    audio_env,                \* what _setup_audio_device finds: devices, configuration, default
    clock,                    \* frames the input device has produced (scripted feeds)
    config,                   \* self.config: the stored options no loader reads
    is_continuous_mode,       \* VoiceInputAssistant.is_continuous_mode
    handler,                  \* hotkey threads: position in on_hotkey_pressed
    oneshot,                  \* the one-shot thread: position in _record_and_recognize
    hotkey                    \* HotkeyManager: configuration, key state, triggers

vars == <<is_monitoring, is_auto_recording, is_recording, recording_thread,
          input_device_id, callback, vad_threshold, auto_recording_duration,
          dynamic_recording, max_recording_duration, mon, wk, nworkers, call,
          voiced_seen, quiet_frames, voiced_dropped, stop_called, clock,
          audio_env, mon_stream, config, is_continuous_mode, handler,
          oneshot, hotkey>>

flags == <<is_monitoring, is_auto_recording>>
seen == <<voiced_seen, quiet_frames, voiced_dropped, stop_called, clock>>
hist == <<seen, mon_stream>>
\* the state of the application around the continuous recogniser
app == <<config, is_continuous_mode, handler, oneshot, hotkey>>
params == <<is_recording, input_device_id, callback, vad_threshold,
            auto_recording_duration, dynamic_recording, max_recording_duration,
            audio_env, app>>

Min(a, b) == IF a <= b THEN a ELSE b

\* a worker thread that has not been started. History fields: shape (the
\* frames read so far: all voiced, voiced then silent, other), start (the
\* device's frame count when the recorder's stream opened), max0 (the
\* max_recording_duration in force when the recording started), stopped.
\* stream: the recorder's input stream is open. lost: frames the device
\* produced during the recording that PortAudio discarded (input overflow).
\* quiet_run, dip_run: history of the frames read: the number of most recent
\* consecutive frames with energy below 0.3 x vad_threshold, and with energy
\* from 0.3 x vad_threshold up to, not including, vad_threshold.
\* opened: history: the recorder's stream was opened for this recording.
NoWorker == [pc |-> "none", policy |-> "none", n |-> 0, silence |-> 0,
             audio |-> NoAudio, text |-> "", tr |-> "none", ref |-> "none",
             nref |-> 0, ncb |-> 0, cb_text |-> "", stopped |-> FALSE,
             shape |-> "voiced", start |-> 0, max0 |-> 0, stream |-> FALSE,
             lost |-> 0, quiet_run |-> 0, dip_run |-> 0, opened |-> FALSE]

\* ------------------------------------------------------------------ Init
\* the options of [voice_recognition] named by the specification that
\* _load_continuous_params does not ask the configuration for
OptionKeys == {"min_recording_duration", "silence_duration_to_stop", "sample_rate"}
Absent == [has |-> FALSE, text |-> <<>>]
NoConfig == [k \in OptionKeys |-> Absent]

\* HotkeyManager.__init__ and set_hotkey before any key event: the hotkey is
\* f9 with the given modifier ("none" for None) and press_type; no key is
\* down. held is the keyboard (the keys physically down); presses, triggers
\* and repeated are history: the times the hotkey went down on the keyboard,
\* the times _trigger_hotkey ran, and whether a repeated key-press event
\* arrived while the hotkey was down.
HotkeyIdle(modifier, press_type) ==
    [key |-> "f9", modifier |-> modifier, press_type |-> press_type,
     held |-> {}, pressed_keys |-> {}, hotkey_pressed |-> FALSE,
     presses |-> 0, triggers |-> 0, repeated |-> FALSE]

\* the application before any hotkey, with or without a running session
AppInit(continuous) ==
    /\ config = NoConfig
    /\ is_continuous_mode = continuous
    /\ handler = [h \in Calls |-> "none"]
    /\ oneshot = "none"
    /\ hotkey = HotkeyIdle("none", "press")

\* mutant of LoadMax: the maximum is the configured duration
LoadMaxUncapped(auto) == auto

\* _load_continuous_params: max_recording_duration = min(auto_recording_duration, 10.0)
LoadMax(auto) == Min(auto, MaxDurationCap)

\* ---------------------------------------------------- device resolution
\* the characters of a configured input_device_id
Chars == {"0", "1", "2", "-", "x"}
Digits == {"0", "1", "2"}
DigitValue(c) == CASE c = "0" -> 0 [] c = "1" -> 1 [] c = "2" -> 2

IsDigits(s) == Len(s) > 0 /\ \A i \in 1..Len(s) : s[i] \in Digits

RECURSIVE DigitsValue(_)
DigitsValue(s) ==
    IF s = <<>> THEN 0
    ELSE DigitsValue(SubSeq(s, 1, Len(s) - 1)) * 10 + DigitValue(s[Len(s)])

\* line 77: int(configured_device) of a string: digits with an optional
\* sign; anything else raises ValueError
IntOf(s) ==
    IF IsDigits(s) THEN [ok |-> TRUE, value |-> DigitsValue(s)]
    ELSE IF Len(s) > 1 /\ s[1] = "-" /\ IsDigits(Tail(s))
    THEN [ok |-> TRUE, value |-> 0 - DigitsValue(Tail(s))]
    ELSE [ok |-> FALSE, value |-> 0]

\* line 67: the indices of the devices with max_input_channels > 0
InputDevices(devices) == {i - 1 : i \in {j \in 1..Len(devices) : devices[j] > 0}}

\* input_devices[0]
First(ids) == CHOOSE i \in ids : \A j \in ids : i <= j

\* lines 89-93: sd.default.device, a pair (input, output) or a single id
DefaultInput(default) == default.input

\* mutant of SetupAudioDevice: the default device is tried before the
\* configured one
SetupAudioDevicePrefersDefault(env) ==
    IF ~env.query_ok THEN NoDevice
    ELSE LET input_devices == InputDevices(env.devices)
             conf == IntOf(env.configured.text)
         IN IF input_devices = {} THEN NoDevice
            ELSE IF env.default.kind # "raises"
                    /\ DefaultInput(env.default) \in input_devices
            THEN DefaultInput(env.default)
            ELSE IF env.configured.set /\ conf.ok /\ conf.value \in input_devices
            THEN conf.value
            ELSE First(input_devices)

\* _setup_audio_device, lines 62-108: the value left in self.input_device_id
\* (None, from line 56, when the method returns early or the query raises)
SetupAudioDevice(env) ==
    IF ~env.query_ok THEN NoDevice
    ELSE LET input_devices == InputDevices(env.devices)
             conf == IntOf(env.configured.text)
         IN IF input_devices = {} THEN NoDevice
            ELSE IF env.configured.set /\ conf.ok /\ conf.value \in input_devices
            THEN conf.value
            ELSE IF env.default.kind # "raises"
                    /\ DefaultInput(env.default) \in input_devices
            THEN DefaultInput(env.default)
            ELSE First(input_devices)

\* an environment in which _setup_audio_device has resolved to device d:
\* nothing configured, no input device for NoDevice and the one device 0 else
EnvFor(d) ==
    [query_ok |-> TRUE,
     devices |-> IF d = NoDevice THEN <<0>> ELSE <<2>>,
     configured |-> [set |-> FALSE, text |-> <<>>],
     default |-> [kind |-> "pair", input |-> IF d = NoDevice THEN -1 ELSE 0],
     resolved |-> TRUE]

\* the recognizer's fields before start_continuous_recognition, apart from
\* the device
Unstarted(autos, thresholds) ==
    /\ is_monitoring = FALSE
    /\ is_auto_recording = FALSE
    /\ is_recording = FALSE
    /\ recording_thread = 0
    /\ callback = TRUE
    /\ vad_threshold \in thresholds
    /\ auto_recording_duration \in autos
    /\ dynamic_recording \in BOOLEAN
    /\ max_recording_duration = LoadMax(auto_recording_duration)
    /\ mon = [m \in Monitors |-> "none"]
    /\ mon_stream = [m \in Monitors |-> FALSE]
    /\ wk = [w \in Workers |-> NoWorker]
    /\ nworkers = 0
    /\ call = [c \in Calls |-> "idle"]
    /\ voiced_seen = FALSE
    /\ quiet_frames = 0
    /\ voiced_dropped = FALSE
    /\ stop_called = FALSE
    /\ clock = 0
    /\ AppInit(FALSE)

InitWith(autos, thresholds) ==
    /\ audio_env \in {EnvFor(d) : d \in DeviceIds}
    /\ input_device_id = SetupAudioDevice(audio_env)
    /\ Unstarted(autos, thresholds)

Init == InitWith(AutoDurations, VadThresholds)

\* positions of a worker inside _dynamic_record or _fixed_duration_record
Recording == {"open", "loop", "read", "fixed"}

\* ------------------------------------------------------- caller threads
NumMonitors == Cardinality({m \in Monitors : mon[m] # "none"})
PendingStarts == Cardinality({c \in Calls : call[c] = "start_set"})

\* a caller thread begins in the lowest unused slot
CanBegin(c) ==
    /\ call[c] = "idle"
    /\ \A d \in Calls : d < c => call[d] # "idle"

\* start_continuous_recognition, lines 403-405: the is_monitoring check
StartTest(c) ==
    /\ call[c] = "idle"
    /\ NumMonitors + PendingStarts < MaxMonitors
    /\ call' = [call EXCEPT ![c] = IF is_monitoring THEN "returned" ELSE "start_set"]
    /\ UNCHANGED <<flags, params, recording_thread, mon, wk, nworkers,
                   hist>>

\* a call of start_continuous_recognition from outside the hotkey handlers
StartCheck(c) == CanBegin(c) /\ StartTest(c)

\* start_continuous_recognition, lines 407-411: set the flag, start the monitor thread
StartSet(c) ==
    /\ call[c] = "start_set"
    /\ LET m == NumMonitors + 1 IN
         /\ is_monitoring' = TRUE
         /\ recording_thread' = m
         /\ mon' = [mon EXCEPT ![m] = "spawned"]
    /\ call' = [call EXCEPT ![c] = "returned"]
    /\ UNCHANGED <<is_auto_recording, params, wk, nworkers, hist>>

\* stop_recognition, lines 415-416: clear both flags
ClearFlags(c) ==
    /\ call[c] = "idle"
    /\ is_monitoring' = FALSE
    /\ is_auto_recording' = FALSE
    /\ call' = [call EXCEPT ![c] = "stop_join"]
    /\ stop_called' = TRUE
    /\ UNCHANGED <<params, recording_thread, mon, wk, nworkers, voiced_seen,
                   quiet_frames, voiced_dropped, clock, mon_stream>>

\* a call of stop_recognition from outside the hotkey handlers
StopFlags(c) == CanBegin(c) /\ ClearFlags(c)

\* stop_recognition, lines 417-419: join(timeout=1) returns when the thread has
\* exited or when the timeout has elapsed, then stop_recognition returns.
\* Every worker started before this return is marked (history).
StopJoin(c) ==
    /\ call[c] = "stop_join"
    /\ call' = [call EXCEPT ![c] = "returned"]
    /\ wk' = [w \in Workers |->
                IF wk[w].pc \notin {"none", "done"}
                THEN [wk[w] EXCEPT !.stopped = TRUE] ELSE wk[w]]
    /\ UNCHANGED <<flags, params, recording_thread, mon, nworkers,
                   hist>>

\* reload_config, lines 395-399, from the settings window's thread:
\* _load_continuous_params (lines 377-393) assigns the values now in the
\* configuration
ReloadConfig(threshold, auto, dynamic) ==
    /\ vad_threshold' = threshold
    /\ auto_recording_duration' = auto
    /\ dynamic_recording' = dynamic
    /\ max_recording_duration' = LoadMax(auto)
    /\ UNCHANGED <<flags, is_recording, input_device_id, callback, audio_env,
                   recording_thread, mon, wk, nworkers, call, hist, app>>

\* ConfigManager._convert_value with a float fallback: float(value). The
\* stored text is written in the units of the model (thousandths for the
\* threshold, milliseconds for a duration), so the numerals float() accepts
\* are here the signed digit strings; any other text raises ValueError.
ConvertValue(text) == IntOf(text)

\* ConfigManager.get: the stored text converted, or the fallback when the
\* option is absent or the conversion raises (the except of line 178)
ConfigGet(stored, fallback) ==
    IF stored.has /\ ConvertValue(stored.text).ok
    THEN ConvertValue(stored.text).value
    ELSE fallback

\* the fallbacks of _load_continuous_params: 0.020 and 2.5 s
DefaultVadThreshold == 20
DefaultAutoDuration == 2500

\* what the configuration may hold for an option: nothing, or a text of at
\* most MaxText characters
MaxText == 3
Texts == UNION {[1..k -> Chars] : k \in 0..MaxText}
StoredValues == {[has |-> FALSE, text |-> <<>>]} \cup
                {[has |-> TRUE, text |-> t] : t \in Texts}
\* the duration option is kept to a few texts
StoredDurations == {[has |-> FALSE, text |-> <<>>],
                    [has |-> TRUE, text |-> <<"x">>],
                    [has |-> TRUE, text |-> <<"0">>],
                    [has |-> TRUE, text |-> <<"-", "1">>],
                    [has |-> TRUE, text |-> <<"2", "0", "0">>],
                    [has |-> TRUE, text |-> <<"1", "0", "0", "0", "0">>],
                    [has |-> TRUE, text |-> <<"2", "0", "0", "0", "0">>]}

\* what the configuration file may hold for the option key
StoredOptions(key) ==
    {Absent, [has |-> TRUE, text |-> <<"x">>],
     [has |-> TRUE, text |-> IF key = "sample_rate"
                             THEN <<"2", "2", "0", "0", "0">>
                             ELSE <<"2", "0", "0">>]}

\* ConfigManager.set and save_config (main_window.save_settings line 667, or
\* the file edited by hand): the option key is stored as value
SaveOption(key, value) ==
    /\ config[key] # value
    /\ config' = [config EXCEPT ![key] = value]
    /\ UNCHANGED <<flags, is_recording, input_device_id, callback, vad_threshold,
                   auto_recording_duration, dynamic_recording,
                   max_recording_duration, audio_env,
                   recording_thread, mon, wk, nworkers, call, hist,
                   is_continuous_mode, handler, oneshot, hotkey>>

\* _load_continuous_params (lines 377-387), called by __init__ and by
\* reload_config, on the configuration as stored
LoadContinuousParams(threshold, auto, dynamic) ==
    ReloadConfig(ConfigGet(threshold, DefaultVadThreshold),
                 ConfigGet(auto, DefaultAutoDuration), dynamic)

\* ------------------------------------------------------- hotkey listener
\* the keys of the keyboard that the model presses
Keys == {"f9", "ctrl_l", "ctrl_r", "a"}

\* _is_hotkey_match, lines 159-165: the pressed_keys names of a modifier
ModifierKeys(modifier) ==
    IF modifier = "ctrl" THEN {"ctrl_l", "ctrl_r", "ctrl"} ELSE {}

\* _is_hotkey_match, lines 150-178, on a set of key names
IsHotkeyMatch(pressed, key, modifier) ==
    /\ key \in pressed
    /\ modifier # "none" => ModifierKeys(modifier) \cap pressed # {}

\* mutant of NewHotkeyPress: the hotkey_pressed test is missing
NewHotkeyPressOnMatch(match, pressed) == match

\* line 111: self._is_hotkey_match() and not self.hotkey_pressed
NewHotkeyPress(match, pressed) == match /\ ~pressed

\* _on_key_press, lines 102-118, for the key named k
OnKeyPress(hk, k) ==
    LET keys == hk.pressed_keys \cup {k}
        new == NewHotkeyPress(IsHotkeyMatch(keys, hk.key, hk.modifier),
                              hk.hotkey_pressed)
    IN [hk EXCEPT !.pressed_keys = keys,
                  !.hotkey_pressed = @ \/ new,
                  !.triggers = IF new /\ hk.press_type = "press"
                               THEN @ + 1 ELSE @]

\* _on_key_release, lines 120-136, for the key named k
OnKeyRelease(hk, k) ==
    LET keys == hk.pressed_keys \ {k}
        gone == hk.hotkey_pressed /\ ~IsHotkeyMatch(keys, hk.key, hk.modifier)
    IN [hk EXCEPT !.pressed_keys = keys,
                  !.hotkey_pressed = @ /\ ~gone,
                  !.triggers = IF gone /\ hk.press_type = "release"
                               THEN @ + 1 ELSE @]

\* the variables a step of the hotkey listener leaves alone
hotkey_rest == <<flags, is_recording, recording_thread, input_device_id,
                 callback, vad_threshold, auto_recording_duration,
                 dynamic_recording, max_recording_duration, audio_env, config,
                 is_continuous_mode, handler, oneshot, mon, wk, nworkers, call,
                 hist>>

\* set_hotkey, lines 39-52, before the keyboard is used
SetHotkey(modifier, press_type) ==
    /\ hotkey.held = {} /\ hotkey.presses = 0 /\ hotkey.triggers = 0
    /\ hotkey' = HotkeyIdle(modifier, press_type)
    /\ UNCHANGED hotkey_rest

\* the key k goes down: the listener calls _on_key_press
KeyDown(k) ==
    /\ k \notin hotkey.held
    /\ hotkey.presses < MaxPresses
    /\ LET held == hotkey.held \cup {k}
           down == /\ IsHotkeyMatch(held, hotkey.key, hotkey.modifier)
                   /\ ~IsHotkeyMatch(hotkey.held, hotkey.key, hotkey.modifier)
       IN hotkey' = [OnKeyPress(hotkey, k) EXCEPT
                       !.held = held,
                       !.presses = IF down THEN @ + 1 ELSE @]
    /\ UNCHANGED hotkey_rest

\* the key k is held down: the keyboard repeats its key-press event
KeyRepeat(k) ==
    /\ k \in hotkey.held
    /\ hotkey' = [OnKeyPress(hotkey, k) EXCEPT
                    !.repeated = @ \/ IsHotkeyMatch(hotkey.held, hotkey.key,
                                                    hotkey.modifier)]
    /\ UNCHANGED hotkey_rest

\* the key k goes up: the listener calls _on_key_release
KeyUp(k) ==
    /\ k \in hotkey.held
    /\ hotkey' = [OnKeyRelease(hotkey, k) EXCEPT !.held = @ \ {k}]
    /\ UNCHANGED hotkey_rest

\* ------------------------------------------------------- hotkey threads
\* HotkeyManager._trigger_hotkey, lines 180-190: each trigger starts a new
\* thread that runs the callback, on_hotkey_pressed
HotkeyTriggered(h) ==
    /\ handler[h] = "none"
    /\ \A g \in Calls : g < h => handler[g] # "none"
    /\ handler' = [handler EXCEPT ![h] = "test"]
    /\ UNCHANGED <<flags, is_recording, input_device_id, callback, vad_threshold,
                   auto_recording_duration, dynamic_recording,
                   max_recording_duration, audio_env, config, is_continuous_mode,
                   oneshot, hotkey, recording_thread, mon, wk, nworkers, call,
                   hist>>

\* on_hotkey_pressed, main.py line 89: if not self.is_continuous_mode
HandlerTest(h) ==
    /\ handler[h] = "test"
    /\ handler' = [handler EXCEPT ![h] =
                     IF ~is_continuous_mode THEN "set_on" ELSE "set_off"]
    /\ UNCHANGED <<flags, is_recording, input_device_id, callback, vad_threshold,
                   auto_recording_duration, dynamic_recording,
                   max_recording_duration, audio_env, config, is_continuous_mode,
                   oneshot, hotkey, recording_thread, mon, wk, nworkers, call,
                   hist>>

\* on_hotkey_pressed, main.py lines 91 and 97: the assignment of the branch
HandlerSet(h) ==
    /\ handler[h] \in {"set_on", "set_off"}
    /\ is_continuous_mode' = (handler[h] = "set_on")
    /\ handler' = [handler EXCEPT ![h] =
                     IF handler[h] = "set_on" THEN "start" ELSE "stop"]
    /\ UNCHANGED <<flags, is_recording, input_device_id, callback, vad_threshold,
                   auto_recording_duration, dynamic_recording,
                   max_recording_duration, audio_env, config, oneshot, hotkey,
                   recording_thread, mon, wk, nworkers, call, hist>>

\* on_hotkey_pressed, main.py line 94: the call of
\* start_continuous_recognition, up to its test of is_monitoring
HandlerStart(h) == handler[h] = "start" /\ StartTest(h)

\* on_hotkey_pressed, main.py line 100: the call of stop_recognition, up to
\* its join
HandlerStop(h) == handler[h] = "stop" /\ ClearFlags(h)

\* ------------------------------------------------- one-shot recognition
\* the value of self.recording_thread that stands for the one-shot thread
OneShotThread == -1

\* the variables a step of the one-shot thread leaves alone
oneshot_rest == <<flags, input_device_id, callback, vad_threshold,
                  auto_recording_duration, dynamic_recording,
                  max_recording_duration, audio_env, config, is_continuous_mode,
                  handler, hotkey, mon, wk, nworkers, call, hist>>

\* VoiceRecognizer.start_recognition, lines 168-177 (inherited unchanged by
\* the continuous recogniser; called by the settings window's voice test):
\* return when is_recording, else set it and start _record_and_recognize
StartRecognition ==
    /\ oneshot = "none"
    /\ ~is_recording
    /\ is_recording' = TRUE
    /\ recording_thread' = OneShotThread
    /\ oneshot' = "begin"
    /\ UNCHANGED oneshot_rest

\* _record_and_recognize, lines 191-193: the device test
OneShotBegin ==
    /\ oneshot = "begin"
    /\ oneshot' = IF input_device_id = NoDevice THEN "finally" ELSE "rec"
    /\ UNCHANGED <<is_recording, recording_thread, oneshot_rest>>

\* _record_and_recognize, lines 199-211: sd.rec and sd.wait, then the test
\* of is_recording; an exception goes to the handler of line 225
OneShotRecord(ok) ==
    /\ oneshot = "rec"
    /\ oneshot' = IF ok /\ is_recording THEN "recognize" ELSE "finally"
    /\ UNCHANGED <<is_recording, recording_thread, oneshot_rest>>

\* _record_and_recognize, lines 216-223: transcription, refinement, callback
OneShotRecognize ==
    /\ oneshot = "recognize"
    /\ oneshot' = "finally"
    /\ UNCHANGED <<is_recording, recording_thread, oneshot_rest>>

\* _record_and_recognize, lines 227-228: finally: self.is_recording = False
OneShotFinally ==
    /\ oneshot = "finally"
    /\ is_recording' = FALSE
    /\ oneshot' = "none"
    /\ UNCHANGED <<recording_thread, oneshot_rest>>

\* ------------------------------------------------------ monitor threads
\* mutant of CloseOnExit: the stream is closed when the block ends normally,
\* not when an exception leaves it
CloseOnNormalExit(how) == how = "error"

\* with sd.InputStream(...) (lines 455 and 528): the with statement calls the
\* stream's __exit__, which closes it, however the block is left; the value
\* is whether the stream is still open
CloseOnExit(how) == FALSE

\* _continuous_monitor, lines 455-462: sd.InputStream(...) opens, or raises
MonitorOpen(m, ok) ==
    /\ mon[m] = "spawned"
    /\ mon' = [mon EXCEPT ![m] = IF ok THEN "running" ELSE "error"]
    /\ mon_stream' = [mon_stream EXCEPT ![m] = ok]
    /\ UNCHANGED <<flags, params, recording_thread, wk, nworkers, call,
                   seen>>

\* lines 463-464: while self.is_monitoring: sleep; leaving the with block
\* closes the stream
MonitorExit(m) ==
    /\ mon[m] = "running"
    /\ ~is_monitoring
    /\ mon' = [mon EXCEPT ![m] = "finally"]
    /\ mon_stream' = [mon_stream EXCEPT ![m] = CloseOnExit("normal")]
    /\ UNCHANGED <<flags, params, recording_thread, wk, nworkers, call,
                   seen>>

\* lines 463-467: the loop has ended and closing the stream on the way out
\* of the with block raises; the handler logs the exception
MonitorCloseError(m) ==
    /\ mon[m] = "running"
    /\ ~is_monitoring
    /\ mon' = [mon EXCEPT ![m] = "error"]
    /\ mon_stream' = [mon_stream EXCEPT ![m] = CloseOnExit("error")]
    /\ UNCHANGED <<flags, params, recording_thread, wk, nworkers, call,
                   seen>>

\* mutant of MonitorFinally: the flag is cleared on the normal exit only
MonitorFinallyOnExitOnly(m) ==
    /\ mon[m] \in {"finally", "error"}
    /\ is_monitoring' = IF mon[m] = "error" THEN is_monitoring ELSE FALSE
    /\ mon' = [mon EXCEPT ![m] = IF mon[m] = "error" THEN "failed" ELSE "exited"]
    /\ UNCHANGED <<is_auto_recording, params, recording_thread, wk, nworkers,
                   call, hist>>

\* lines 468-469: finally: self.is_monitoring = False, after the loop or
\* after the handler; the thread ends ("failed" after an exception)
MonitorFinally(m) ==
    /\ mon[m] \in {"finally", "error"}
    /\ is_monitoring' = FALSE
    /\ mon' = [mon EXCEPT ![m] = IF mon[m] = "error" THEN "failed" ELSE "exited"]
    /\ UNCHANGED <<is_auto_recording, params, recording_thread, wk, nworkers,
                   call, hist>>

\* -------------------------------------------------------- frame callback
\* mutant of IsVoiced: >= for >
IsVoicedOrEqual(energy, threshold) == energy >= threshold

\* line 440: energy > self.vad_threshold
IsVoiced(energy, threshold) == energy > threshold

\* mutant of GateOpen: the is_auto_recording test is missing
GateOpenNoAutoCheck(auto_rec, rec) == ~rec

\* line 444: not self.is_auto_recording and not self.is_recording
GateOpen(auto_rec, rec) == ~auto_rec /\ ~rec

\* mutant of CallbackCanRun: the callback joins the worker it started, so
\* no frame is handled while a worker exists
CallbackCanRunWhenNoWorker(m) ==
    mon[m] = "running" /\ \A w \in Workers : wk[w].pc = "none"

\* lines 455-462: PortAudio calls audio_callback on its own thread for each
\* frame of the open stream of monitor m; the callback holds no lock and
\* joins no thread (Thread(...).start() at lines 449-452 returns at once)
CallbackCanRun(m) == mon[m] = "running"

\* audio_callback, lines 426-452, for one frame of the stream of monitor m.
\* debug_counter and last_activity_time only feed the log and are left out.
AudioCallback(m, energy, status) ==
    /\ CallbackCanRun(m)
    /\ voiced_seen' = (voiced_seen \/ energy > vad_threshold)
    /\ quiet_frames' = IF voiced_seen' THEN 0 ELSE Min(quiet_frames + 1, MaxQuiet)
    /\ IF ~status /\ IsVoiced(energy, vad_threshold)
       THEN IF GateOpen(is_auto_recording, is_recording)
            THEN /\ nworkers < MaxWorkers
                 /\ is_auto_recording' = TRUE
                 /\ nworkers' = nworkers + 1
                 /\ wk' = [wk EXCEPT ![nworkers + 1] =
                             [NoWorker EXCEPT !.pc = "start"]]
                 /\ UNCHANGED voiced_dropped
            ELSE /\ voiced_dropped' = TRUE
                 /\ UNCHANGED <<is_auto_recording, nworkers, wk>>
       ELSE UNCHANGED <<is_auto_recording, nworkers, wk, voiced_dropped>>
    /\ UNCHANGED <<is_monitoring, params, recording_thread, mon, call, stop_called,
                   mon_stream>>

\* a frame of any energy, outside a scripted feed
FrameCallback(m, energy, status) ==
    AudioCallback(m, energy, status) /\ UNCHANGED clock

\* -------------------------------------------------------- worker threads
TranscribeOutcomes == {"raise", "empty", "text"}
LlmOutcomes == {"unavailable", "no_key", "raise", "ok", "ok_empty"}
PunctOutcomes == {"ok", "raise"}

\* _auto_record_and_recognize, lines 473-484: device check, choice of policy
WorkerBegin(w) ==
    /\ wk[w].pc = "start"
    /\ wk' = [wk EXCEPT ![w] =
                IF input_device_id = NoDevice
                THEN [@ EXCEPT !.pc = "finally"]
                ELSE IF dynamic_recording
                THEN [@ EXCEPT !.pc = "open", !.policy = "dynamic",
                               !.max0 = max_recording_duration]
                ELSE [@ EXCEPT !.pc = "fixed", !.policy = "fixed"]]
    /\ UNCHANGED <<flags, params, recording_thread, mon, nworkers, call,
                   hist>>

\* _dynamic_record, lines 527-534: open the recorder's stream; an exception
\* is caught at lines 565-567 and the recorder returns None
DynOpen(w, ok) ==
    /\ wk[w].pc = "open"
    /\ wk' = [wk EXCEPT ![w] =
                IF ok THEN [@ EXCEPT !.pc = "loop", !.start = clock,
                                     !.stream = TRUE, !.opened = TRUE]
                ELSE [@ EXCEPT !.pc = "recorded", !.audio = NoAudio]]
    /\ UNCHANGED <<flags, params, recording_thread, mon, nworkers, call,
                   hist>>

\* mutant of LoopContinues: the loop does not look at the maximum duration
LoopContinuesIgnoresMax(recording_time, max, monitoring) == monitoring

\* mutant of LoopContinues: the loop does not look at is_monitoring
LoopContinuesIgnoresFlag(recording_time, max, monitoring) == recording_time < max

\* line 536: recording_time < self.max_recording_duration and self.is_monitoring
LoopContinues(recording_time, max, monitoring) ==
    recording_time < max /\ monitoring

\* lines 569-576: concatenate the buffer, None when it is empty
Concatenate(n) == IF n > 0 THEN n * chunk_size ELSE NoAudio

\* _dynamic_record, line 536: the loop condition
DynCheck(w) ==
    /\ wk[w].pc = "loop"
    /\ wk' = [wk EXCEPT ![w] =
                IF LoopContinues(wk[w].n * chunk_duration, max_recording_duration,
                                 is_monitoring)
                THEN [@ EXCEPT !.pc = "read"]
                ELSE [@ EXCEPT !.pc = "recorded",
                               !.stream = CloseOnExit("normal"),
                               !.audio = Concatenate(wk[w].n)]]
    /\ UNCHANGED <<flags, params, recording_thread, mon, nworkers, call,
                   hist>>

\* mutant of IsSilent: every frame below the threshold counts as silence
IsSilentBelowThreshold(energy, threshold) == energy < threshold

\* line 550: energy < self.vad_threshold * 0.3
IsSilent(energy, threshold) == energy * 10 < threshold * 3

\* lines 550-553: the silence counter after one more frame
NextSilence(silence, energy, threshold) ==
    IF IsSilent(energy, threshold) THEN silence + chunk_duration ELSE 0

\* mutant of SilenceStop: the first silent frame stops the recording
SilenceStopAtFirstSilence(recording_time, silence) ==
    recording_time >= min_recording_duration /\ silence > 0

\* lines 556-557: the early stop
SilenceStop(recording_time, silence) ==
    recording_time >= min_recording_duration /\ silence >= silence_duration_to_stop

\* history: the shape of the frames read so far, after one more frame
NextShape(shape, energy, threshold) ==
    IF shape = "voiced" /\ IsVoiced(energy, threshold) THEN "voiced"
    ELSE IF shape \in {"voiced", "silent_tail"} /\ IsSilent(energy, threshold)
    THEN "silent_tail"
    ELSE "other"

\* mutant of ReadFailed: the handler returns the frames buffered so far
ReadFailedKeepsBuffer(n) == Concatenate(n)

\* lines 565-567: except Exception: log, return None
ReadFailed(n) == NoAudio

\* _dynamic_record, lines 538-576: read one frame, append, update the counters,
\* break on the early stop; a failed read is caught at lines 565-567. The
\* counters stay as history of the recording until the worker has looked at
\* its result
AfterRead(rec, energy, ok) ==
    IF ~ok THEN [rec EXCEPT !.pc = "recorded",
                            !.stream = CloseOnExit("error"),
                            !.audio = ReadFailed(rec.n)]
    ELSE LET n == rec.n + 1
             s == NextSilence(rec.silence, energy, vad_threshold)
             r == [rec EXCEPT
                     !.n = n, !.silence = s,
                     !.shape = NextShape(@, energy, vad_threshold),
                     !.quiet_run = IF energy * 10 < 3 * vad_threshold
                                   THEN @ + 1 ELSE 0,
                     !.dip_run = IF /\ energy * 10 >= 3 * vad_threshold
                                    /\ energy < vad_threshold
                                 THEN @ + 1 ELSE 0]
         IN IF SilenceStop(n * chunk_duration, s)
            THEN [r EXCEPT !.pc = "recorded",
                           !.stream = CloseOnExit("normal"),
                           !.audio = Concatenate(n)]
            ELSE [r EXCEPT !.pc = "loop"]

DynRead(w, energy, ok) ==
    /\ wk[w].pc = "read"
    /\ wk' = [wk EXCEPT ![w] = AfterRead(@, energy, ok)]
    /\ UNCHANGED <<flags, params, recording_thread, mon, nworkers, call,
                   hist>>

\* lines 538-540: stream.read reports overflowed: PortAudio discarded input
\* of the device (here: lost frames) before the frame it returns; the code
\* logs it and goes on as after any other read
DynReadOverflowed(w, energy, lost) ==
    /\ wk[w].pc = "read"
    /\ wk[w].lost + lost <= MaxLost
    /\ wk' = [wk EXCEPT ![w] =
                [AfterRead(@, energy, TRUE) EXCEPT !.lost = @ + lost]]
    /\ UNCHANGED <<flags, params, recording_thread, mon, nworkers, call,
                   hist>>

\* mutant of DurationSamples: the duration in whole frames
DurationSamplesInFrames(auto) == (auto \div chunk_duration) * chunk_size

\* line 580: int(self.auto_recording_duration * self.sample_rate)
DurationSamples(auto) == (auto * sample_rate) \div 1000

\* _fixed_duration_record, lines 580-593: sd.rec and sd.wait; an exception
\* goes to the worker's handler at line 507
FixedRecord(w, ok) ==
    /\ wk[w].pc = "fixed"
    /\ wk' = [wk EXCEPT ![w] =
                IF ok THEN [@ EXCEPT !.pc = "recorded",
                                     !.audio = DurationSamples(auto_recording_duration)]
                ELSE [@ EXCEPT !.pc = "finally"]]
    /\ UNCHANGED <<flags, params, recording_thread, mon, nworkers, call,
                   hist>>

\* mutant of NoUtterance: only the length of the recording is tested
NoUtteranceByLength(audio) == audio = 0

\* line 486: audio_data is None or len(audio_data) == 0
NoUtterance(audio) == audio = NoAudio \/ audio = 0

\* _auto_record_and_recognize, lines 486-496: skip an empty recording, skip
\* when monitoring has been switched off; otherwise the audio goes to the engine
AfterRecord(w) ==
    /\ wk[w].pc = "recorded"
    /\ wk' = [wk EXCEPT ![w] =
                LET r == [wk[w] EXCEPT !.n = 0, !.silence = 0, !.shape = "voiced",
                                        !.start = 0, !.max0 = 0, !.stream = FALSE,
                                        !.lost = 0, !.quiet_run = 0,
                                        !.dip_run = 0, !.opened = FALSE]
                IN IF NoUtterance(wk[w].audio) \/ ~is_monitoring
                   THEN [r EXCEPT !.pc = "finally"]
                   ELSE [r EXCEPT !.pc = "transcribe", !.audio = NoAudio]]
    /\ UNCHANGED <<flags, params, recording_thread, mon, nworkers, call,
                   hist>>

\* mutant of RecognizeAudio: the handler returns the error text
RecognizeAudioErrorText(outcome) == IF outcome = "empty" THEN "" ELSE "raw"

\* _recognize_audio, lines 230-263: the text of the engine, "" when the text
\* is empty and "" when the engine raises
RecognizeAudio(outcome) == IF outcome = "text" THEN "raw" ELSE ""

\* mutant of AfterTranscribe: the test of the text is missing
AfterTranscribeNoTextTest(text, cb, llm_enabled, punct_available) ==
    IF cb
    THEN IF llm_enabled THEN "llm"
         ELSE IF punct_available THEN "punct" ELSE "cb"
    ELSE "finally"

\* lines 498-503: which step follows the transcription
AfterTranscribe(text, cb, llm_enabled, punct_available) ==
    IF text # "" /\ cb
    THEN IF llm_enabled THEN "llm"
         ELSE IF punct_available THEN "punct" ELSE "cb"
    ELSE "finally"

\* _auto_record_and_recognize, lines 496-503: the transcription returns
Transcribe(w, outcome, llm_enabled, punct_available) ==
    /\ wk[w].pc = "transcribe"
    /\ LET text == RecognizeAudio(outcome) IN
       wk' = [wk EXCEPT ![w] =
                [@ EXCEPT !.text = text, !.tr = outcome,
                          !.pc = AfterTranscribe(text, callback, llm_enabled,
                                                 punct_available)]]
    /\ UNCHANGED <<flags, params, recording_thread, mon, nworkers, call,
                   hist>>

\* mutant of OptimizeTextWithLlm: a failure returns no text
OptimizeTextWithLlmDropsText(text, how) ==
    IF how = "ok" THEN "refined" ELSE ""

\* _optimize_text_with_llm, lines 295-337: the model's answer; the text
\* as it came when the library or the key is missing or the call raises
OptimizeTextWithLlm(text, how) ==
    IF how = "ok" THEN "refined"
    ELSE IF how = "ok_empty" THEN ""
    ELSE text

\* line 501: text = self._optimize_text_with_llm(text)
Refine(w, how) ==
    /\ wk[w].pc = "llm"
    /\ wk' = [wk EXCEPT ![w] =
                [@ EXCEPT !.text = OptimizeTextWithLlm(wk[w].text, how),
                          !.ref = how, !.nref = @ + 1, !.pc = "cb"]]
    /\ UNCHANGED <<flags, params, recording_thread, mon, nworkers, call,
                   hist>>

\* _add_local_punctuation, lines 339-354
AddLocalPunctuation(text, how) == IF how = "ok" THEN "punctuated" ELSE text

\* line 503: text = self._add_local_punctuation(text)
Punctuate(w, how) ==
    /\ wk[w].pc = "punct"
    /\ wk' = [wk EXCEPT ![w] =
                [@ EXCEPT !.text = AddLocalPunctuation(wk[w].text, how), !.pc = "cb"]]
    /\ UNCHANGED <<flags, params, recording_thread, mon, nworkers, call,
                   hist>>

\* line 505: self.callback(text); when the callback raises, the handler at
\* line 507 logs it
Callback(w) ==
    /\ wk[w].pc = "cb"
    /\ wk' = [wk EXCEPT ![w] =
                [@ EXCEPT !.ncb = @ + 1, !.cb_text = wk[w].text, !.pc = "finally"]]
    /\ UNCHANGED <<flags, params, recording_thread, mon, nworkers, call,
                   hist>>

\* mutant of Finally: the gate is cleared only after an utterance that was
\* transcribed without error
FinallyOnSuccessOnly(w) ==
    /\ wk[w].pc = "finally"
    /\ is_auto_recording' = IF wk[w].tr = "raise" THEN is_auto_recording ELSE FALSE
    /\ wk' = [wk EXCEPT ![w] =
                [NoWorker EXCEPT !.pc = "cooldown", !.tr = wk[w].tr,
                                 !.ncb = wk[w].ncb]]
    /\ UNCHANGED <<is_monitoring, params, recording_thread, mon, nworkers, call,
                   hist>>

\* lines 509-510: finally: self.is_auto_recording = False; the locals of the
\* try block are dead from here on, the history of the utterance (tr, ncb) stays
Finally(w) ==
    /\ wk[w].pc = "finally"
    /\ is_auto_recording' = FALSE
    /\ wk' = [wk EXCEPT ![w] =
                [NoWorker EXCEPT !.pc = "cooldown", !.tr = wk[w].tr,
                                 !.ncb = wk[w].ncb]]
    /\ UNCHANGED <<is_monitoring, params, recording_thread, mon, nworkers, call,
                   hist>>

\* line 512: time.sleep(self.cooldown_time) returns, the thread ends
CooldownElapsed(w) ==
    /\ wk[w].pc = "cooldown"
    /\ wk' = [wk EXCEPT ![w] = [@ EXCEPT !.pc = "done"]]
    /\ UNCHANGED <<flags, params, recording_thread, mon, nworkers, call,
                   hist>>

\* ------------------------------------------------------- specification
\* The whole recognizer with a configuration that is not reloaded. A stream
\* that raises on closing (MonitorCloseError) differs from a normal exit only
\* in the name of the monitor's last position; it is part of SpecMon.
Next ==
    \/ \E c \in Calls : StartCheck(c)
    \/ \E c \in Calls : StartSet(c)
    \/ \E c \in Calls : StopFlags(c)
    \/ \E c \in Calls : StopJoin(c)
    \/ \E m \in Monitors, ok \in BOOLEAN : MonitorOpen(m, ok)
    \/ \E m \in Monitors : MonitorExit(m)
    \/ \E m \in Monitors : MonitorFinally(m)
    \/ \E m \in Monitors, e \in Energies, st \in BOOLEAN : FrameCallback(m, e, st)
    \/ \E w \in Workers : WorkerBegin(w)
    \/ \E w \in Workers, ok \in BOOLEAN : DynOpen(w, ok)
    \/ \E w \in Workers : DynCheck(w)
    \/ \E w \in Workers, e \in Energies, ok \in BOOLEAN : DynRead(w, e, ok)
    \/ \E w \in Workers, ok \in BOOLEAN : FixedRecord(w, ok)
    \/ \E w \in Workers : AfterRecord(w)
    \/ \E w \in Workers, o \in TranscribeOutcomes, l \in BOOLEAN, p \in BOOLEAN :
          Transcribe(w, o, l, p)
    \/ \E w \in Workers, h \in LlmOutcomes : Refine(w, h)
    \/ \E w \in Workers, h \in PunctOutcomes : Punctuate(w, h)
    \/ \E w \in Workers : Callback(w)
    \/ \E w \in Workers : Finally(w)
    \/ \E w \in Workers : CooldownElapsed(w)

Spec == Init /\ [][Next]_vars

\* The callers and the monitor threads alone: every way a monitor's stream
\* can fail, with no frame delivered.
NextMon ==
    \/ \E c \in Calls : StartCheck(c)
    \/ \E c \in Calls : StartSet(c)
    \/ \E c \in Calls : StopFlags(c)
    \/ \E c \in Calls : StopJoin(c)
    \/ \E m \in Monitors, ok \in BOOLEAN : MonitorOpen(m, ok)
    \/ \E m \in Monitors : MonitorExit(m)
    \/ \E m \in Monitors : MonitorCloseError(m)
    \/ \E m \in Monitors : MonitorFinally(m)

SpecMon == Init /\ [][NextMon]_vars

\* the steps of worker thread w
WorkerStep(w) ==
    \/ WorkerBegin(w)
    \/ \E ok \in BOOLEAN : DynOpen(w, ok)
    \/ DynCheck(w)
    \/ \E e \in Energies, ok \in BOOLEAN : DynRead(w, e, ok)
    \/ \E ok \in BOOLEAN : FixedRecord(w, ok)
    \/ AfterRecord(w)
    \/ \E o \in TranscribeOutcomes, l \in BOOLEAN, p \in BOOLEAN :
          Transcribe(w, o, l, p)
    \/ \E h \in LlmOutcomes : Refine(w, h)
    \/ \E h \in PunctOutcomes : Punctuate(w, h)
    \/ Callback(w)
    \/ Finally(w)
    \/ CooldownElapsed(w)

\* One session that is started once and never stopped: the single caller, its
\* monitor thread, the frames of its stream and the workers they dispatch.
NextSession ==
    \/ StartCheck(1)
    \/ StartSet(1)
    \/ \E ok \in BOOLEAN : MonitorOpen(1, ok)
    \/ MonitorFinally(1)
    \/ \E e \in Energies, st \in BOOLEAN : FrameCallback(1, e, st)
    \/ \E w \in Workers : WorkerStep(w)

\* a started worker thread keeps running: its blocking calls (stream reads,
\* transcription, refinement, callback, sleep) return or raise
FairSession ==
    /\ Init
    /\ [][NextSession]_vars
    /\ \A w \in Workers : WF_vars(WorkerStep(w))

\* One onset of one session, with the recorder's inputs drawn from wider sets:
\* the state after start_continuous_recognition, the opening of the monitor's
\* stream and the acceptance of a first voiced frame (lines 445-452).
InitRecWith(autos, thresholds) ==
    /\ is_monitoring = TRUE
    /\ is_auto_recording = TRUE
    /\ is_recording = FALSE
    /\ recording_thread = 1
    /\ audio_env = EnvFor(0)
    /\ input_device_id = SetupAudioDevice(audio_env)
    /\ callback = TRUE
    /\ vad_threshold \in thresholds
    /\ auto_recording_duration \in autos
    /\ dynamic_recording \in BOOLEAN
    /\ max_recording_duration = LoadMax(auto_recording_duration)
    /\ mon = [m \in Monitors |-> IF m = 1 THEN "running" ELSE "none"]
    /\ mon_stream = [m \in Monitors |-> m = 1]
    /\ wk = [w \in Workers |-> IF w = 1 THEN [NoWorker EXCEPT !.pc = "start"]
                                         ELSE NoWorker]
    /\ nworkers = 1
    /\ call = [c \in Calls |-> IF c = 1 THEN "returned" ELSE "idle"]
    /\ voiced_seen = TRUE
    /\ quiet_frames = 0
    /\ voiced_dropped = FALSE
    /\ stop_called = FALSE
    /\ clock = 0
    /\ AppInit(TRUE)

InitRec == InitRecWith(RecDurations, RecThresholds)

\* the worker of that onset, a stop_recognition call and the monitor's exit
NextRec ==
    \/ StopFlags(2)
    \/ StopJoin(2)
    \/ MonitorExit(1)
    \/ MonitorCloseError(1)
    \/ MonitorFinally(1)
    \/ WorkerBegin(1)
    \/ \E ok \in BOOLEAN : DynOpen(1, ok)
    \/ DynCheck(1)
    \/ \E e \in RecEnergies, ok \in BOOLEAN : DynRead(1, e, ok)
    \/ \E ok \in BOOLEAN : FixedRecord(1, ok)
    \/ AfterRecord(1)
    \/ \E o \in TranscribeOutcomes, l \in BOOLEAN, p \in BOOLEAN :
          Transcribe(1, o, l, p)
    \/ \E h \in LlmOutcomes : Refine(1, h)
    \/ \E h \in PunctOutcomes : Punctuate(1, h)
    \/ Callback(1)
    \/ Finally(1)
    \/ CooldownElapsed(1)

SpecRec == InitRec /\ [][NextRec]_vars

\* the same onset with a worker thread that keeps running: the stream keeps
\* delivering frames (or raises) and the blocking calls return or raise
FairRec == SpecRec /\ WF_vars(WorkerStep(1))

\* the same onset while the settings window saves and reloads the
\* configuration (main_window.save_settings, main.reload_voice_config)
InitReload == InitRecWith(ReloadDurations, ReloadThresholds)

NextReload ==
    \/ NextRec
    \/ \E t \in ReloadThresholds, a \in ReloadDurations, d \in BOOLEAN :
          ReloadConfig(t, a, d)

SpecReload == InitReload /\ [][NextReload]_vars

\* Scenario A: the device produces 40 frames of energy 0.05, then 13 frames
\* of energy 0.0. The monitor's stream (lines 455-462) delivers each frame to
\* audio_callback; the recorder's own stream (lines 527-534) is opened by the
\* worker after the onset and delivers the frames the device produces from
\* then on, in order and without loss.
FeedA == [i \in 1..53 |-> IF i <= 40 THEN 50 ELSE 0]

\* the state after start_continuous_recognition and the opening of the
\* monitor's stream, with vad_threshold 0.02 and auto_recording_duration 5
InitA ==
    /\ is_monitoring = TRUE
    /\ is_auto_recording = FALSE
    /\ is_recording = FALSE
    /\ recording_thread = 1
    /\ audio_env = EnvFor(0)
    /\ input_device_id = SetupAudioDevice(audio_env)
    /\ callback = TRUE
    /\ vad_threshold = 20
    /\ auto_recording_duration = 5000
    /\ dynamic_recording = TRUE
    /\ max_recording_duration = LoadMax(auto_recording_duration)
    /\ mon = [m \in Monitors |-> IF m = 1 THEN "running" ELSE "none"]
    /\ mon_stream = [m \in Monitors |-> m = 1]
    /\ wk = [w \in Workers |-> NoWorker]
    /\ nworkers = 0
    /\ call = [c \in Calls |-> IF c = 1 THEN "returned" ELSE "idle"]
    /\ voiced_seen = FALSE
    /\ quiet_frames = 0
    /\ voiced_dropped = FALSE
    /\ stop_called = FALSE
    /\ clock = 0
    /\ AppInit(TRUE)

\* the device produces its next frame and the monitor's stream delivers it;
\* a dispatched worker has opened its stream within MaxOpenDelay frames
FeedCallback ==
    /\ clock < Len(FeedA)
    /\ \A w \in Workers : wk[w].pc \in {"start", "open"} => clock < MaxOpenDelay
    /\ AudioCallback(1, FeedA[clock + 1], FALSE)
    /\ clock' = clock + 1

\* stream.read (line 538) returns the next frame of the recorder's stream,
\* once the device has produced it
FeedRead(w) ==
    /\ wk[w].start + wk[w].n < clock
    /\ DynRead(w, FeedA[wk[w].start + wk[w].n + 1], TRUE)

NextA ==
    \/ FeedCallback
    \/ \E w \in Workers : WorkerBegin(w)
    \/ \E w \in Workers : DynOpen(w, TRUE)
    \/ \E w \in Workers : DynCheck(w)
    \/ \E w \in Workers : FeedRead(w)
    \/ \E w \in Workers : AfterRecord(w)
    \/ \E w \in Workers, o \in TranscribeOutcomes, l \in BOOLEAN, p \in BOOLEAN :
          Transcribe(w, o, l, p)
    \/ \E w \in Workers, h \in LlmOutcomes : Refine(w, h)
    \/ \E w \in Workers, h \in PunctOutcomes : Punctuate(w, h)
    \/ \E w \in Workers : Callback(w)
    \/ \E w \in Workers : Finally(w)
    \/ \E w \in Workers : CooldownElapsed(w)

SpecA == InitA /\ [][NextA]_vars

\* The construction of the recognizer: VoiceRecognizer.__init__ sets
\* input_device_id to None (line 56) and calls _setup_audio_device (line 59)
\* in an environment of up to 3 devices, a configured id of up to 2
\* characters or none, and a default device.
DeviceLists == UNION {[1..n -> {0, 2}] : n \in 0..3}
ConfiguredIds ==
    {[set |-> FALSE, text |-> <<>>]}
    \cup {[set |-> TRUE, text |-> t] : t \in UNION {[1..n -> Chars] : n \in 0..2}}
Defaults ==
    {[kind |-> "raises", input |-> -1]}
    \cup {[kind |-> k, input |-> i] : k \in {"pair", "single"}, i \in -1..2}

InitDev ==
    /\ audio_env \in [query_ok : BOOLEAN, devices : DeviceLists,
                       configured : ConfiguredIds, default : Defaults,
                       resolved : {FALSE}]
    /\ input_device_id = NoDevice
    /\ Unstarted(AutoDurations, VadThresholds)

\* line 59: self._setup_audio_device()
SetupAudioDeviceCall ==
    /\ ~audio_env.resolved
    /\ input_device_id' = SetupAudioDevice(audio_env)
    /\ audio_env' = [audio_env EXCEPT !.resolved = TRUE]
    /\ UNCHANGED <<flags, is_recording, callback, vad_threshold,
                   auto_recording_duration, dynamic_recording,
                   max_recording_duration, recording_thread, mon, wk, nworkers,
                   call, hist, app>>

NextDev == SetupAudioDeviceCall

SpecDev == InitDev /\ [][NextDev]_vars

\* the same onset on a device whose input overflows
NextOverflow ==
    \/ NextRec
    \/ \E e \in RecEnergies, lost \in 1..MaxLost : DynReadOverflowed(1, e, lost)

SpecOverflow == InitReload /\ [][NextOverflow]_vars

\* One session together with voice tests of the settings window on the same
\* recogniser.
NextOneShot ==
    \/ NextSession
    \/ StartRecognition
    \/ OneShotBegin
    \/ \E ok \in BOOLEAN : OneShotRecord(ok)
    \/ OneShotRecognize
    \/ OneShotFinally

SpecOneShot == Init /\ [][NextOneShot]_vars

\* The hotkey listener and the keyboard.
NextKeys ==
    \/ \E m \in {"none", "ctrl"}, t \in {"press", "release"} : SetHotkey(m, t)
    \/ \E k \in Keys : KeyDown(k)
    \/ \E k \in Keys : KeyRepeat(k)
    \/ \E k \in Keys : KeyUp(k)

SpecKeys == Init /\ [][NextKeys]_vars

\* The application: hotkey threads running on_hotkey_pressed, the calls they
\* make and the monitor threads these start.
NextApp ==
    \/ \E h \in Calls : HotkeyTriggered(h)
    \/ \E h \in Calls : HandlerTest(h)
    \/ \E h \in Calls : HandlerSet(h)
    \/ \E h \in Calls : HandlerStart(h)
    \/ \E h \in Calls : StartSet(h)
    \/ \E h \in Calls : HandlerStop(h)
    \/ \E h \in Calls : StopJoin(h)
    \/ \E m \in Monitors, ok \in BOOLEAN : MonitorOpen(m, ok)
    \/ \E m \in Monitors : MonitorExit(m)
    \/ \E m \in Monitors : MonitorFinally(m)

SpecApp == Init /\ [][NextApp]_vars

\* the configuration is edited and reloaded
NextConfig ==
    \/ \E k \in OptionKeys : \E v \in StoredOptions(k) : SaveOption(k, v)
    \/ \E t \in StoredDurations, a \in StoredDurations, d \in BOOLEAN :
          LoadContinuousParams(t, a, d)

SpecConfig == Init /\ [][NextConfig]_vars

\* loading and reloading the configuration, whatever it holds
NextLoad ==
    \E t \in StoredValues, a \in StoredDurations, d \in BOOLEAN :
        LoadContinuousParams(t, a, d)

SpecLoad == Init /\ [][NextLoad]_vars

\* ------------------------------------------------------------- properties
\* workers between their dispatch and the clearing of the gate at line 510
Busy == {"start", "open", "loop", "read", "fixed", "recorded", "transcribe",
         "llm", "punct", "cb", "finally"}

\* C1: at most one worker is inside _dynamic_record or _fixed_duration_record
\* at any time, across every interleaving of toggle_on, toggle_off, frame
\* callbacks and worker steps.
C1_OneRecorder ==
    Cardinality({w \in Workers : wk[w].pc \in Recording}) <= 1

\* C2: once stop_recognition has returned, the callback is not invoked for a
\* worker that was dispatched before the stop.
C2_NoCallbackAfterStop ==
    [][\A w \in Workers : wk'[w].ncb > wk[w].ncb => ~wk[w].stopped]_vars

\* C3: no worker is dispatched while a worker that completed an utterance
\* (its audio went through the transcription) is still in its cooldown sleep.
C3_NoOnsetInCooldown ==
    [][nworkers' > nworkers =>
         \A w \in Workers : ~(wk[w].pc = "cooldown" /\ wk[w].tr # "none")]_vars

\* C4: as long as stop_recognition has not been called, at most one worker is
\* between its dispatch and the clearing of the gate: every voiced frame
\* delivered meanwhile is dropped.
C4_OneWorkerPerOnset ==
    ~stop_called => Cardinality({w \in Workers : wk[w].pc \in Busy}) <= 1

\* C4 witness: with no stop, a voiced frame was dropped while the only worker
\* is in the transcription call.
C4_Witness ==
    /\ ~stop_called
    /\ voiced_dropped
    /\ nworkers = 1
    /\ \E w \in Workers : wk[w].pc = "transcribe"

\* C5: every utterance returned by _dynamic_record has a duration
\* (frames read x chunk_duration) within
\* [min_recording_duration, max_recording_duration]. Stated for the
\* recordings that no stop_recognition has cut short.
C5_DurationInRange ==
    \A w \in Workers :
        (/\ wk[w].pc = "recorded" /\ wk[w].policy = "dynamic"
         /\ wk[w].audio # NoAudio /\ ~stop_called)
        => LET d == (wk[w].audio \div chunk_size) * chunk_duration
           IN min_recording_duration <= d /\ d <= max_recording_duration

\* C6: in a session that is not stopped, a worker whose transcription raised
\* goes to its finally block with the flags untouched, its finally step
\* reopens the gate and leaves is_monitoring alone, and the session does get
\* there: the worker is in or past its cooldown, the gate is open and
\* monitoring is on.
C6_FailureDoesNotBlock ==
    /\ [][\A w \in Workers :
            /\ (wk[w].pc = "transcribe" /\ wk'[w].tr = "raise")
                 => (wk'[w].pc = "finally" /\ UNCHANGED flags)
            /\ (wk[w].tr = "raise" /\ wk[w].pc = "finally" /\ wk'[w].pc # "finally")
                 => (/\ wk'[w].pc = "cooldown"
                     /\ ~is_auto_recording'
                     /\ is_monitoring' = is_monitoring)]_vars
    /\ \A w \in Workers :
          (wk[w].tr = "raise")
            ~> (/\ wk[w].pc \in {"cooldown", "done"}
                /\ ~is_auto_recording
                /\ is_monitoring)

\* C6 witness: after a worker whose transcription raised has finished its
\* cooldown, with monitoring still on, a later worker's callback has fired
\* for a successful transcription.
C6_Witness ==
    /\ is_monitoring
    /\ ~stop_called
    /\ \E v, w \in Workers :
          /\ v < w
          /\ wk[v].tr = "raise" /\ wk[v].pc = "done"
          /\ wk[w].tr = "text" /\ wk[w].ncb = 1

\* C7: when the engine raised, the worker is in (or past) its finally block
\* with an empty transcript, and neither the refiner nor the callback ran.
C7_FailureIsEmptyTranscript ==
    \A w \in Workers :
        wk[w].tr = "raise"
        => /\ wk[w].pc \in {"finally", "cooldown", "done"}
           /\ wk[w].text = ""
           /\ wk[w].nref = 0
           /\ wk[w].ref = "none"
           /\ wk[w].ncb = 0

\* C7 witness: a worker whose engine raised has reached its finally block.
C7_Witness ==
    \E w \in Workers : wk[w].tr = "raise" /\ wk[w].pc = "finally"

\* C8: with a callback set, a worker that is through its try block has
\* invoked the callback once if its transcription returned text and not at
\* all otherwise; callback and refiner run at most once per worker.
C8_OneCallbackPerUtterance ==
    \A w \in Workers :
        /\ wk[w].ncb <= 1
        /\ wk[w].nref <= 1
        /\ wk[w].ncb = 1 => wk[w].tr = "text"
        /\ (callback /\ wk[w].pc \in {"finally", "cooldown", "done"})
             => (wk[w].ncb = 1 <=> wk[w].tr = "text")

\* C8 witness: a worker has invoked the callback for its utterance and is in
\* its finally block, another finished without text and without callback.
C8_Witness ==
    \E v, w \in Workers :
        /\ wk[v].pc = "finally" /\ wk[v].tr = "text" /\ wk[v].ncb = 1
        /\ wk[w].pc \in {"cooldown", "done"} /\ wk[w].tr = "empty" /\ wk[w].ncb = 0

RefinerFailures == {"unavailable", "no_key", "raise"}

\* C9: when the refiner failed, the worker goes on to the callback, which is
\* invoked once with the transcript as the engine returned it.
C9_RefinerFailureFallsBack ==
    \A w \in Workers :
        wk[w].ref \in RefinerFailures
        => /\ wk[w].text = "raw"
           /\ wk[w].pc \in {"cb", "finally"}
           /\ wk[w].pc = "finally" => (wk[w].ncb = 1 /\ wk[w].cb_text = "raw")

\* C9 witness: the callback has fired after a refiner that raised.
C9_Witness ==
    \E w \in Workers :
        wk[w].ref = "raise" /\ wk[w].pc = "finally" /\ wk[w].ncb = 1

\* C10: as long as no delivered frame had an energy above vad_threshold, no
\* worker has been dispatched and the engine has not been invoked.
C10_QuietNoOnset ==
    ~voiced_seen
    => /\ nworkers = 0
       /\ ~is_auto_recording
       /\ \A w \in Workers : wk[w].pc = "none" /\ wk[w].tr = "none"

\* C10 witness: 50 frames have been delivered to a running monitor, none above
\* the threshold, and nothing was dispatched.
C10_Witness ==
    /\ ~voiced_seen
    /\ quiet_frames = MaxQuiet
    /\ nworkers = 0
    /\ is_monitoring

C12_VoicedStopsAtMax ==
    \A w \in Workers :
        (/\ wk[w].pc = "recorded" /\ wk[w].policy = "dynamic"
         /\ wk[w].audio # NoAudio /\ ~stop_called
         /\ wk[w].shape = "voiced"
         /\ wk[w].max0 = max_recording_duration)
        => wk[w].n * chunk_duration = max_recording_duration

\* C13: a dynamic recording of about 1 s of voiced frames (15 or 16 frames)
\* followed by silent frames for longer than silence_duration_to_stop, cut
\* short by no stop_recognition and with the configuration unchanged, has a
\* duration within one frame of 1 s + silence_duration_to_stop and not above
\* max_recording_duration.
C13_SilenceStopsEarly ==
    \A w \in Workers :
        (/\ wk[w].pc = "recorded" /\ wk[w].policy = "dynamic"
         /\ wk[w].audio # NoAudio /\ ~stop_called
         /\ wk[w].shape = "silent_tail"
         /\ wk[w].silence > silence_duration_to_stop
         /\ wk[w].n * chunk_duration - wk[w].silence \in {960, 1024}
         /\ wk[w].max0 = max_recording_duration)
        => LET d == wk[w].n * chunk_duration
               target == 1000 + silence_duration_to_stop
           IN /\ target - chunk_duration <= d /\ d <= target + chunk_duration
              /\ d <= max_recording_duration

\* C14: a dynamic recording that no stop_recognition cut short and that did
\* not end on the silence stop ended on the max_recording_duration that was
\* in force when it started: its last frame is the one that reached it.
C14_ParamsOfTheStart ==
    \A w \in Workers :
        (/\ wk[w].pc = "recorded" /\ wk[w].policy = "dynamic"
         /\ wk[w].audio # NoAudio /\ ~stop_called
         /\ ~SilenceStop(wk[w].n * chunk_duration, wk[w].silence))
        => /\ wk[w].n * chunk_duration >= wk[w].max0
           /\ (wk[w].n - 1) * chunk_duration < wk[w].max0

C15_NoStreamWithoutDevice ==
    input_device_id = NoDevice
    => /\ \A m \in Monitors : mon[m] \in {"none", "spawned"}
       /\ \A w \in Workers : wk[w].pc \notin Recording

\* C16: when device resolution yielded no device, the session never enters
\* Monitoring: is_monitoring stays False and no monitor thread is running.
C16_FailedStartWithoutDevice ==
    input_device_id = NoDevice
    => /\ ~is_monitoring
       /\ \A m \in Monitors : mon[m] # "running"

\* C19: a monitor whose stream raised (on opening, or on closing) leaves its
\* handler through the finally block, which clears is_monitoring, and ends
\* without touching the callers and the workers; and a monitor thread is
\* only ever started by a start_continuous_recognition call.
C19_MonitorFailureIsIdle ==
    [][/\ \A m \in Monitors :
            (mon[m] = "error" /\ mon'[m] # "error")
              => (/\ mon'[m] = "failed"
                  /\ ~is_monitoring'
                  /\ UNCHANGED <<wk, call, nworkers>>)
       /\ \A m \in Monitors :
            (mon[m] = "none" /\ mon'[m] # "none")
              => \E c \in Calls : call[c] = "start_set" /\ call'[c] = "returned"]_vars

\* C19 witness: the only monitor that was started has ended after its stream
\* failed to open, no stop was called, and is_monitoring is False.
C19_Witness ==
    /\ mon[1] = "failed" /\ mon[2] = "none"
    /\ ~stop_called
    /\ ~is_monitoring
    /\ \A c \in Calls : call[c] # "start_set"

\* C18: once stop_recognition has cleared is_monitoring (and nothing sets it
\* again), the dynamic recorder's loop test admits no further read, the
\* fixed-duration recorder returns at most one more frame, a recording that
\* has returned goes to the worker's finally block and not to the engine, and
\* the monitor's loop ends.
C18_CancellationIsPrompt ==
    [][/\ \A w \in Workers :
            /\ (wk[w].pc = "loop" /\ ~is_monitoring /\ wk'[w].pc # "loop")
                 => wk'[w].pc = "recorded"
            /\ (wk[w].pc = "fixed" /\ ~is_monitoring /\ wk'[w].pc = "recorded")
                 => wk'[w].audio <= chunk_size
            /\ (wk[w].pc = "recorded" /\ stop_called /\ wk'[w].pc # "recorded")
                 => wk'[w].pc = "finally"
       /\ \A m \in Monitors :
            (mon[m] = "running" /\ ~is_monitoring /\ mon'[m] # "running")
              => mon'[m] = "finally"]_vars

\* C20: a read that fails in a dynamic recording leaves the recorder with no
\* utterance and the flags as they were; a worker whose recorder returned no
\* utterance has not invoked the engine or the callback and goes straight to
\* its finally block; the finally step reopens the gate, leaves is_monitoring
\* alone and invokes no callback.
C20_ReadFailureIsNoUtterance ==
    /\ [](\A w \in Workers :
            (wk[w].pc = "recorded" /\ wk[w].audio = NoAudio)
              => (wk[w].tr = "none" /\ wk[w].ncb = 0))
    /\ [][\A w \in Workers :
            /\ (wk[w].pc = "read" /\ wk'[w].pc = "recorded" /\ wk'[w].n = wk[w].n)
                 => (wk'[w].audio = NoAudio /\ UNCHANGED flags)
            /\ (wk[w].pc = "recorded" /\ wk[w].audio = NoAudio
                   /\ wk'[w].pc # "recorded")
                 => (/\ wk'[w].pc = "finally"
                     /\ wk'[w].tr = "none" /\ wk'[w].ncb = 0
                     /\ UNCHANGED flags)
            /\ (wk[w].pc = "finally" /\ wk'[w].pc # "finally")
                 => (/\ wk'[w].pc = "cooldown"
                     /\ ~is_auto_recording'
                     /\ is_monitoring' = is_monitoring
                     /\ wk'[w].ncb = wk[w].ncb)]_vars

\* C20 witness: a recorder that had buffered frames has returned no utterance
\* (only a failed read does that), with monitoring on and no stop called.
C20_Witness ==
    /\ is_monitoring /\ ~stop_called
    /\ \E w \in Workers :
          wk[w].pc = "recorded" /\ wk[w].n > 0 /\ wk[w].audio = NoAudio

\* C21: an input stream is open only inside the with block of the thread
\* that opened it: a monitor's stream only while the monitor is in its loop,
\* a recorder's stream only while the worker is in the read loop.
C21_StreamsClosedOnExit ==
    /\ \A m \in Monitors : mon_stream[m] => mon[m] = "running"
    /\ \A w \in Workers : wk[w].stream => wk[w].pc \in {"loop", "read"}

\* C21 witness: the monitor has ended through its exception handler and a
\* recorder that had buffered frames has returned after a failed read; both
\* streams are closed.
C21_Witness ==
    /\ mon[1] = "failed" /\ ~mon_stream[1]
    /\ \E w \in Workers :
          /\ wk[w].pc = "recorded" /\ wk[w].n > 0 /\ wk[w].audio = NoAudio
          /\ ~wk[w].stream

\* the largest energy a frame of float32 samples in [-1, 1] can have (1.0)
FullScale == 1000

\* C22: after every load the threshold is inside the range in which the
\* gate can work: above zero and not above the largest energy a frame can
\* have.
C22_ThresholdInSaneRange == vad_threshold > 0 /\ vad_threshold <= FullScale

\* C23: a fixed-duration recording holds int(auto_recording_duration x
\* sample_rate) samples: the largest whole number of samples that fits in
\* the configured duration, whatever the input was.
C23_FixedLength ==
    \A w \in Workers :
        (wk[w].pc = "recorded" /\ wk[w].policy = "fixed") =>
            /\ wk[w].audio # NoAudio
            /\ wk[w].audio * 1000 <= auto_recording_duration * sample_rate
            /\ auto_recording_duration * sample_rate < (wk[w].audio + 1) * 1000

\* C23 witness: a fixed-duration recording of 0.3 s has returned 4800
\* samples, which is no whole number of frames.
C23_Witness ==
    \E w \in Workers :
        /\ wk[w].pc = "recorded" /\ wk[w].policy = "fixed"
        /\ ~dynamic_recording /\ auto_recording_duration = 300
        /\ wk[w].audio = 4800

\* C24: the frame callback never waits for a worker: whatever the workers
\* are doing, the callback of a running monitor can handle the next frame
\* (the only limit is the model's bound on the number of workers), and the
\* step that dispatches a worker only starts its thread: the new worker is
\* at its first statement and no other worker has moved.
C24_CallbackNeverWaits ==
    /\ [](\A m \in Monitors :
            (mon[m] = "running" /\ nworkers < MaxWorkers) =>
                \A e \in Energies : ENABLED FrameCallback(m, e, FALSE))
    /\ [][nworkers' > nworkers =>
            /\ wk'[nworkers'] = [NoWorker EXCEPT !.pc = "start"]
            /\ \A w \in 1..nworkers : wk'[w] = wk[w]
            /\ mon' = mon]_vars

\* C24 witness: while the first worker is inside its read loop the callback
\* has handled a voiced frame (and dropped it at the gate).
C24_Witness ==
    /\ mon[1] = "running"
    /\ wk[1].pc \in {"loop", "read"} /\ wk[1].n > 0
    /\ voiced_dropped

\* C25: no frame is lost within the utterance: a dynamic recording that
\* returns audio returns every frame the device produced between the start
\* and the stop of the recording, the frames of an overflowed read included.
C25_NoFrameLost ==
    \A w \in Workers :
        (wk[w].pc = "recorded" /\ wk[w].policy = "dynamic"
            /\ wk[w].audio # NoAudio) =>
            wk[w].audio = (wk[w].n + wk[w].lost) * chunk_size

\* C26: the dynamic recorder stops after frame n exactly when n is the first
\* frame count at which the maximum duration is reached, or the minimum
\* duration is reached with enough trailing silence, or the cancellation
\* flag is clear: at the loop test it leaves the loop if and only if one of
\* the three holds, it is never about to read with the duration or the
\* silence condition true, and a read ends the recording if and only if it
\* made the silence condition true.
C26_StopsAtFirstCondition ==
    /\ [](\A w \in Workers :
            wk[w].pc \in {"loop", "read"} =>
                /\ ~(wk[w].n * chunk_duration >= min_recording_duration
                        /\ wk[w].silence >= silence_duration_to_stop)
                /\ wk[w].pc = "read" =>
                        wk[w].n * chunk_duration < max_recording_duration)
    /\ [][\A w \in Workers :
            /\ (wk[w].pc = "loop" /\ wk'[w].pc # "loop") =>
                  IF \/ wk[w].n * chunk_duration >= max_recording_duration
                     \/ /\ wk[w].n * chunk_duration >= min_recording_duration
                        /\ wk[w].silence >= silence_duration_to_stop
                     \/ ~is_monitoring
                  THEN wk'[w].pc = "recorded" /\ wk'[w].n = wk[w].n
                  ELSE wk'[w].pc = "read"
            /\ (wk[w].pc = "read" /\ wk'[w].n = wk[w].n + 1) =>
                  IF /\ wk'[w].n * chunk_duration >= min_recording_duration
                     /\ wk'[w].silence >= silence_duration_to_stop
                  THEN wk'[w].pc = "recorded"
                  ELSE wk'[w].pc = "loop"]_vars

\* C26 witness: a recording stopped by silence after its 13th frame, before
\* the maximum duration and with the flag still set.
C26_Witness ==
    \E w \in Workers :
        /\ wk[w].pc = "recorded" /\ wk[w].policy = "dynamic"
        /\ wk[w].n = 13 /\ wk[w].silence >= silence_duration_to_stop
        /\ wk[w].n * chunk_duration < max_recording_duration
        /\ is_monitoring

\* C27: after each frame silence_time is the frame duration times the number
\* of most recent consecutive frames with energy below 0.3 x vad_threshold;
\* a frame at or above 0.3 x vad_threshold resets it, also when it is below
\* vad_threshold, so that a recording that returns audio ending in a run of
\* such frames was not stopped by silence: it ran to the maximum duration
\* (or was cancelled).
C27_SilenceCountsQuietRun ==
    \A w \in Workers :
        (wk[w].policy = "dynamic" /\ wk[w].pc \in {"loop", "read", "recorded"}) =>
            /\ wk[w].silence = chunk_duration * wk[w].quiet_run
            /\ wk[w].dip_run > 0 =>
                  /\ wk[w].silence = 0
                  /\ (wk[w].pc = "recorded" /\ wk[w].audio # NoAudio
                        /\ is_monitoring) =>
                        wk[w].n * chunk_duration >= max_recording_duration

\* C27 witness: a recording that ended with 13 or more frames between
\* 0.3 x vad_threshold and vad_threshold (more than 0.8 s) ran to its maximum
\* duration with silence_time 0.
C27_Witness ==
    \E w \in Workers :
        /\ wk[w].pc = "recorded" /\ wk[w].policy = "dynamic"
        /\ wk[w].dip_run >= 13 /\ wk[w].silence = 0
        /\ wk[w].n * chunk_duration >= max_recording_duration
        /\ is_monitoring

\* C28: no worker is dispatched by a frame that arrives after toggle_off:
\* every step that starts a worker is taken with is_monitoring set.
C28_NoDispatchAfterToggleOff == [][nworkers' > nworkers => is_monitoring]_vars

\* C29: at most one monitor loop, with its persistent stream, runs at any
\* time, whatever the sequence of toggle_on and toggle_off.
C29_OneMonitorLoop ==
    Cardinality({m \in Monitors : mon[m] = "running" /\ mon_stream[m]}) <= 1

\* C30: a dynamic recorder that stops before it has read any frame (the
\* flag is clear at the first loop test, or max_recording_duration <= 0)
\* returns no utterance, and its worker goes to its cleanup without the
\* engine or the result callback being invoked.
C30_NoFrameIsNoUtterance ==
    /\ [](\A w \in Workers :
            (wk[w].pc = "recorded" /\ wk[w].opened /\ wk[w].n = 0) =>
                /\ wk[w].audio = NoAudio
                /\ wk[w].tr = "none" /\ wk[w].ncb = 0)
    /\ [][\A w \in Workers :
            /\ (wk[w].pc = "loop" /\ wk[w].n = 0 /\ wk'[w].pc # "loop"
                   /\ (~is_monitoring \/ max_recording_duration <= 0))
                 => (wk'[w].pc = "recorded" /\ wk'[w].n = 0)
            /\ (wk[w].pc = "recorded" /\ wk[w].opened /\ wk[w].n = 0
                   /\ wk'[w].pc # "recorded")
                 => (/\ wk'[w].pc = "finally"
                     /\ wk'[w].tr = "none" /\ wk'[w].ncb = 0)]_vars

\* C30 witness: with max_recording_duration = 0 and monitoring on, the
\* recorder has opened its stream and returned without a frame.
C30_Witness ==
    /\ is_monitoring /\ max_recording_duration = 0
    /\ \E w \in Workers :
          /\ wk[w].pc = "recorded" /\ wk[w].opened /\ wk[w].n = 0
          /\ wk[w].audio = NoAudio

\* C31: after every load or reload, min_recording_duration,
\* silence_duration_to_stop and sample_rate hold the configured values when
\* the keys are present and 0.5 s, 0.8 s and 16000 otherwise.
C31_LoadedValuesFollowConfiguration ==
    [][config' = config =>
        /\ min_recording_duration = ConfigGet(config["min_recording_duration"], 500)
        /\ silence_duration_to_stop =
              ConfigGet(config["silence_duration_to_stop"], 800)
        /\ sample_rate = ConfigGet(config["sample_rate"], 16000)]_vars

\* C32: after every load or reload max_recording_duration is the smaller of
\* auto_recording_duration and 10 s, so the limit of a dynamic recording is
\* never above 10 s.
C32_MaxIsCapped ==
    /\ max_recording_duration <= 10000
    /\ max_recording_duration <= auto_recording_duration
    /\ \/ max_recording_duration = 10000
       \/ max_recording_duration = auto_recording_duration

\* C32 witness: a configured auto_recording_duration of 20 s has been loaded
\* and the limit is 10 s.
C32_Witness ==
    auto_recording_duration = 20000 /\ max_recording_duration = 10000

\* C33: every load or reload leaves the minimum recording duration not
\* above the maximum recording duration.
C33_MinNotAboveMax ==
    [][min_recording_duration <= max_recording_duration']_vars

\* C34: a monitor thread that left its loop on a toggle_off never resets
\* the flag of a session started since: when its finally block runs,
\* is_monitoring is still clear.
C34_OldMonitorLeavesNewSession ==
    [][\A m \in Monitors :
          (mon[m] = "finally" /\ mon'[m] = "exited") => ~is_monitoring]_vars

\* no hotkey thread is inside on_hotkey_pressed
NoHandlerRunning ==
    \A h \in Calls : handler[h] = "none" \/ call[h] = "returned"

\* C35: whenever no toggle handler is running, the application's
\* is_continuous_mode agrees with the recogniser's is_monitoring.
C35_ModeAgreesWithMonitoring ==
    NoHandlerRunning => (is_continuous_mode <=> is_monitoring)

\* C36: once every toggle handler that was started from Idle has finished,
\* the session is Monitoring if and only if their number is odd (no stream
\* has failed).
C36_MonitoringIffOddPresses ==
    LET k == Cardinality({h \in Calls : handler[h] # "none"})
    IN (/\ k > 0
        /\ NoHandlerRunning
        /\ \A m \in Monitors : mon[m] \notin {"error", "failed"}) =>
            (is_monitoring <=> k % 2 = 1)

\* C37: a one-shot recording and a recording of a continuous-mode worker
\* are never in progress at the same time on the recogniser.
C37_OneRecordingAtATime ==
    ~(/\ oneshot = "rec" /\ is_recording
      /\ is_auto_recording
      /\ \E w \in Workers : wk[w].pc \in Recording)

\* C38: every dynamic recording terminates: the recorder has never read
\* more than ceil(max_recording_duration / frame duration) frames (the last
\* frame read began before the maximum), and every dispatched worker gets to
\* the end of its finally block, whose first statement clears the onset gate.
C38_RecordingTerminates ==
    /\ [](\A w \in Workers :
            (wk[w].policy = "dynamic" /\ wk[w].n > 0) =>
                (wk[w].n - 1) * chunk_duration < max_recording_duration)
    /\ [][\A w \in Workers :
            (wk[w].pc # "cooldown" /\ wk'[w].pc = "cooldown") =>
                (wk[w].pc = "finally" /\ ~is_auto_recording')]_vars
    /\ \A w \in Workers :
          (wk[w].pc \in Busy) ~> (wk[w].pc \in {"cooldown", "done"})

\* C38 witness: with a limit of 2.5 s and monitoring on, the read loop has
\* ended after its 40th frame, ceil(2.5 / 0.064), without a silence stop.
C38_Witness ==
    /\ is_monitoring /\ max_recording_duration = 2500
    /\ \E w \in Workers :
          /\ wk[w].pc = "recorded" /\ wk[w].policy = "dynamic"
          /\ wk[w].n = 40 /\ wk[w].silence < silence_duration_to_stop

\* C39: with press_type 'press' the hotkey callback is triggered once for
\* each time the hotkey goes down on the keyboard: repeated key-press events
\* of held keys trigger nothing, and the listener's hotkey_pressed follows
\* the keyboard, so that the next press after a release triggers again.
C39_OneTriggerPerPress ==
    hotkey.press_type = "press" =>
        /\ hotkey.triggers = hotkey.presses
        /\ hotkey.hotkey_pressed <=>
              (hotkey.key \in hotkey.held /\
                 (hotkey.modifier = "ctrl" =>
                    ("ctrl_l" \in hotkey.held \/ "ctrl_r" \in hotkey.held)))

\* C39 witness: the hotkey ctrl+f9 is down for the second time, its keys
\* have repeated while it was down, and the callback has been triggered
\* twice.
C39_Witness ==
    /\ hotkey.press_type = "press" /\ hotkey.modifier = "ctrl"
    /\ hotkey.hotkey_pressed /\ hotkey.repeated
    /\ hotkey.presses = 2 /\ hotkey.triggers = 2

====
